---- MODULE Spec2Model ----
(***************************************************************************)
(* Model of the VIVIA media worker: the /process handler (process_media),  *)
(* the photo and video enhancement pipelines it dispatches to, and the     *)
(* caption generator.  One job runs at a time; jobs follow one another on  *)
(* the same temp directory and the same storage buckets.                   *)
(***************************************************************************)
EXTENDS Integers, Sequences, FiniteSets, TLC

\* ---------------------------------------------------------------- bounds
MaxRuns == 1        \* requests handled one after the other
MaxDim == 2         \* source image width/height range 1..MaxDim
MaxListLen == 6     \* longest JSON array the caption model answers with

\* ------------------------------------------------------- program constants
SCALE == 2          \* ai_enhance: "scale": 2 and the PIL fallback's * 2
THUMB == 400        \* generate_thumbnail: img.thumbnail((400, 400))
MOBILE_W == 1080    \* video thumbnail: scale=1080:1920
MOBILE_H == 1920

Users == {"u1"}
Suffixes == {".jpg", ".mp4", ".MOV"}
VIDEO_EXTS == {".mp4", ".mov", ".avi", ".mkv", ".webm"}
MUSIC_LIBRARY == << "https://example.com/music/upbeat1.mp3",
                    "https://example.com/music/chill1.mp3",
                    "https://example.com/music/energetic1.mp3" >>

\* The literal list returned by generate_captions' except branch (the emoji
\* that start each caption are left out of the strings).
FALLBACK_CAPTIONS == << "Capturing the vibe", "Living in the moment",
                        "Aesthetic energy", "Pure mood", "Vibes only" >>
GENERIC_DESCRIPTION == "A beautifully captured moment"

VARIABLES
    pc,          \* position of the running request inside process_media
    runs,        \* number of requests started so far
    request,     \* ProcessRequest: [user_id, suffix] (suffix of media_url)
    nextId,      \* next fresh uuid4 value
    disk,        \* temp directory: function path -> file content
    storage,     \* set of stored objects [bucket, key, content]
    media_path,  \* process_media local
    media_type,  \* process_media local
    output_id,   \* enhance_photo / enhance_video local
    music_url,   \* enhance_video local
    result,      \* the dict returned by the pipeline, then completed
    description, \* generate_captions local
    captions,    \* value returned by generate_captions
    response,    \* what the caller of /process receives
    trace        \* calls made by the running request, in order

vars == << pc, runs, request, nextId, disk, storage, media_path, media_type,
           output_id, music_url, result, description, captions, response,
           trace >>

\* -------------------------------------------------------------- helpers
Min(a, b) == IF a <= b THEN a ELSE b
Max(a, b) == IF a >= b THEN a ELSE b

NoPath == [id |-> 0, name |-> ""]
NoUrl == [bucket |-> "", user_id |-> "", id |-> 0, ext |-> ""]
NoMusic == "None"

\* JSON / Python values the caption code handles: t is the type, items the
\* elements of a list (or the entries of an object), s the text of a scalar
JList(items) == [t |-> "list", items |-> items, s |-> ""]
JObject(items) == [t |-> "object", items |-> items, s |-> ""]
JStr(s) == [t |-> "str", items |-> << >>, s |-> s]
JNum(s) == [t |-> "num", items |-> << >>, s |-> s]
JBool(s) == [t |-> "bool", items |-> << >>, s |-> s]
JNull == [t |-> "null", items |-> << >>, s |-> ""]

NoResult == [media_url |-> NoUrl, thumbnail_url |-> NoUrl, music_url |-> NoMusic,
             ai_style |-> "", caption |-> JNull, captions |-> JNull,
             media_type |-> ""]
NoResponse == [status |-> "pending", body |-> NoResult]

\* a temp path without the uuid in its name
PathShared(id, name) == [id |-> 0, name |-> name]

\* os.path.join(temp_dir, f"{id}{name}")
Path(id, name) == [id |-> id, name |-> name]

\* file contents: the media kind a decoder finds, and the picture size
Image(w, h) == [kind |-> "image", w |-> w, h |-> h]
Video == [kind |-> "video", w |-> 0, h |-> 0]
Garbage == [kind |-> "garbage", w |-> 0, h |-> 0]

Exists(p) == p \in DOMAIN disk

\* open(path, "wb").write(content) / img.save(path) / ffmpeg ... path
WriteFile(d, p, c) == [q \in (DOMAIN d) \cup {p} |-> IF q = p THEN c ELSE d[q]]

\* os.remove(path)
RemoveFile(d, p) == [q \in (DOMAIN d) \ {p} |-> d[q]]

RECURSIVE RemoveAll(_, _)
RemoveAll(d, ps) ==
    IF ps = << >> THEN d
    ELSE RemoveAll(IF Head(ps) \in DOMAIN d THEN RemoveFile(d, Head(ps)) ELSE d,
                   Tail(ps))

\* str.lower() on the suffixes of the model
Lower(s) == CASE s = ".MOV" -> ".mov"
              [] s = ".MP4" -> ".mp4"
              [] s = ".JPG" -> ".jpg"
              [] OTHER -> s

\* detect_media_type without .lower()
DetectCaseSensitive(suffix) ==
    IF suffix \in VIDEO_EXTS THEN "video" ELSE "photo"

detect_media_type(suffix) ==
    IF Lower(suffix) \in VIDEO_EXTS THEN "video" ELSE "photo"

\* one call of the running request: err is "" when the call did what it is
\* for, else the way it failed
Event(op, err, src, dst) == [op |-> op, err |-> err, src |-> src, dst |-> dst]
Ok(e) == e.err = ""

\* ------------------------------------------------- shared action shapes
\* An exception that reaches process_media's "except Exception" becomes
\* HTTPException(500): the caller gets an error and no body.
\* Fail with the exception swallowed and the failed call made again
FailRetries(events) ==
    /\ pc' = pc
    /\ response' = response
    /\ trace' = trace

Fail(events) ==
    /\ pc' = "done"
    /\ response' = [status |-> "error", body |-> NoResult]
    /\ trace' = trace \o events

Readable(p, kind) == Exists(p) /\ disk[p].kind = kind

\* LocalStage with the exception swallowed: the pipeline goes on
LocalStageContinues(op, src, kind, dst, out, nextpc) ==
    \E ok \in BOOLEAN :
        /\ disk' = IF ok /\ Readable(src, kind) THEN WriteFile(disk, dst, out) ELSE disk
        /\ pc' = nextpc
        /\ trace' = Append(trace, Event(op, IF ok /\ Readable(src, kind) THEN "" ELSE "raised",
                                        src, dst))
        /\ UNCHANGED response

\* A stage with one local method (PIL or an ffmpeg run with check=True): it
\* reads src and writes dst, or raises.
LocalStage(op, src, kind, dst, out, nextpc) ==
    \E ok \in BOOLEAN :
        IF ok /\ Readable(src, kind)
        THEN /\ disk' = WriteFile(disk, dst, out)
             /\ pc' = nextpc
             /\ trace' = Append(trace, Event(op, "", src, dst))
             /\ UNCHANGED response
        ELSE /\ Fail(<< Event(op, "raised", src, dst) >>)
             /\ UNCHANGED disk

\* What the try block of ai_enhance / upscale_video can do:
\*   call_error   replicate.run raises
\*   fetch_error  requests.get raises (no connection, output is not a URL)
\*   bad_status   requests.get returns a non-2xx response; its body is written
\*   ok           the upscaled media is fetched and written
PrimaryOutcomes == {"call_error", "fetch_error", "bad_status", "ok"}
PrimaryRaises(o) == o \in {"call_error", "fetch_error"}

\* AiStage without the except branch: a primary that raises ends the run
AiStageNoFallback(op, src, kind, dst, primaryOut, fallbackOut, nextpc) ==
    \E o \in PrimaryOutcomes :
        /\ o = "ok" => Readable(src, kind)
        /\ LET prim == Event(op \o ".primary", IF o = "ok" THEN "" ELSE o, src, dst)
           IN  IF ~PrimaryRaises(o)
               THEN /\ disk' = WriteFile(disk, dst,
                                         IF o = "ok" THEN primaryOut ELSE Garbage)
                    /\ pc' = nextpc
                    /\ trace' = Append(trace, prim)
                    /\ UNCHANGED response
               ELSE /\ Fail(<< prim >>)
                    /\ UNCHANGED disk

\* A stage with a remote primary method and a local fallback in its except
\* branch.
AiStage(op, src, kind, dst, primaryOut, fallbackOut, nextpc) ==
    \E o \in PrimaryOutcomes, fb \in BOOLEAN :
        /\ o = "ok" => Readable(src, kind)
        /\ LET prim == Event(op \o ".primary", IF o = "ok" THEN "" ELSE o, src, dst)
               fall == Event(op \o ".fallback",
                             IF fb /\ Readable(src, kind) THEN "" ELSE "raised",
                             src, dst)
           IN  IF ~PrimaryRaises(o)
               THEN /\ disk' = WriteFile(disk, dst,
                                         IF o = "ok" THEN primaryOut ELSE Garbage)
                    /\ pc' = nextpc
                    /\ trace' = Append(trace, prim)
                    /\ UNCHANGED response
               ELSE IF fb /\ Readable(src, kind)
               THEN /\ disk' = WriteFile(disk, dst, fallbackOut)
                    /\ pc' = nextpc
                    /\ trace' = trace \o << prim, fall >>
                    /\ UNCHANGED response
               ELSE /\ Fail(<< prim, fall >>)
                    /\ UNCHANGED disk

\* an object key without the uuid
UrlNoId(bucket, user, id, ext) == [bucket |-> bucket, user_id |-> user, id |-> 0, ext |-> ext]

\* upload_to_storage: a fresh object key {user_id}/{uuid4}.{ext}
Url(bucket, user, id, ext) == [bucket |-> bucket, user_id |-> user, id |-> id, ext |-> ext]

\* Upload with a second attempt after a failed first one
UploadRetries(op, src, bucket, ext, field, nextpc) ==
    \E first \in BOOLEAN, ok \in BOOLEAN :
        LET tried == IF first THEN << >> ELSE << Event(op, "raised", src, NoPath) >>
        IN  IF ok /\ Exists(src)
            THEN LET url == Url(bucket, request.user_id, nextId, ext)
                 IN  /\ storage' = storage \cup {[url |-> url, content |-> disk[src]]}
                     /\ result' = [result EXCEPT ![field] = url]
                     /\ nextId' = nextId + 1
                     /\ pc' = nextpc
                     /\ trace' = trace \o tried \o << Event(op, "", src, NoPath) >>
                     /\ UNCHANGED response
            ELSE /\ Fail(tried \o << Event(op, "raised", src, NoPath) >>)
                 /\ UNCHANGED << storage, result, nextId >>

Upload(op, src, bucket, ext, field, nextpc) ==
    \E ok \in BOOLEAN :
        IF ok /\ Exists(src)
        THEN LET url == Url(bucket, request.user_id, nextId, ext)
             IN  /\ storage' = storage \cup {[url |-> url, content |-> disk[src]]}
                 /\ result' = [result EXCEPT ![field] = url]
                 /\ nextId' = nextId + 1
                 /\ pc' = nextpc
                 /\ trace' = Append(trace, Event(op, "", src, NoPath))
                 /\ UNCHANGED response
        ELSE /\ Fail(<< Event(op, "raised", src, NoPath) >>)
             /\ UNCHANGED << storage, result, nextId >>

\* Cleanup that removes nothing
CleanupSkips(files, nextpc) ==
    /\ disk' = disk
    /\ pc' = nextpc
    /\ trace' = Append(trace, Event("cleanup", "", NoPath, NoPath))
    /\ UNCHANGED response

\* The cleanup loop: os.remove on each listed file that exists; an os.remove
\* that raises ends the loop with the remaining files in place.
Cleanup(files, nextpc) ==
    \E k \in 0..Len(files) :
        /\ disk' = RemoveAll(disk, SubSeq(files, 1, k))
        /\ IF k = Len(files)
           THEN /\ pc' = nextpc
                /\ trace' = Append(trace, Event("cleanup", "", NoPath, NoPath))
                /\ UNCHANGED response
           ELSE Fail(<< Event("cleanup", "raised", NoPath, files[k + 1]) >>)

\* ------------------------------------------------------- process_media
SrcSizes == (1..MaxDim) \cup {THUMB}

SourceContents(suffix) ==
    IF detect_media_type(suffix) = "video"
    THEN {Video, Garbage}
    ELSE {Image(w, h) : w \in SrcSizes, h \in SrcSizes} \cup {Garbage}

\* DownloadMedia without raise_for_status(): the error body is saved as the
\* source file and the request goes on
DownloadMediaNoStatusCheck ==
    /\ pc \in {"idle", "done"}
    /\ runs < MaxRuns
    /\ runs' = runs + 1
    /\ \E u \in Users, sfx \in Suffixes, ok \in BOOLEAN :
        /\ request' = [user_id |-> u, suffix |-> sfx]
        /\ output_id' = 0
        /\ music_url' = NoMusic
        /\ result' = NoResult
        /\ description' = ""
        /\ captions' = JNull
        /\ \E c \in IF ok THEN SourceContents(sfx) ELSE {Garbage} :
            /\ disk' = WriteFile(disk, Path(nextId, sfx), c)
            /\ media_path' = Path(nextId, sfx)
            /\ media_type' = detect_media_type(sfx)
            /\ nextId' = nextId + 1
            /\ pc' = "dispatch"
            /\ response' = NoResponse
            /\ trace' = << Event("download_media", IF ok THEN "" ELSE "bad_status",
                                 NoPath, Path(nextId, sfx)) >>
    /\ UNCHANGED storage

\* download_media, then detect_media_type.  The file is named {uuid4}{suffix}.
DownloadMedia ==
    /\ pc \in {"idle", "done"}
    /\ runs < MaxRuns
    /\ runs' = runs + 1
    /\ \E u \in Users, sfx \in Suffixes, ok \in BOOLEAN :
        /\ request' = [user_id |-> u, suffix |-> sfx]
        /\ output_id' = 0
        /\ music_url' = NoMusic
        /\ result' = NoResult
        /\ description' = ""
        /\ captions' = JNull
        /\ IF ok
           THEN \E c \in SourceContents(sfx) :
                /\ disk' = WriteFile(disk, Path(nextId, sfx), c)
                /\ media_path' = Path(nextId, sfx)
                /\ media_type' = detect_media_type(sfx)
                /\ nextId' = nextId + 1
                /\ pc' = "dispatch"
                /\ response' = NoResponse
                /\ trace' = << Event("download_media", "", NoPath, Path(nextId, sfx)) >>
           ELSE /\ pc' = "done"
                /\ response' = [status |-> "error", body |-> NoResult]
                /\ trace' = << Event("download_media", "raised", NoPath, NoPath) >>
                /\ media_path' = NoPath
                /\ media_type' = ""
                /\ UNCHANGED << disk, nextId >>
    /\ UNCHANGED storage

\* process_photo: PhotoEnhancer() raises ValueError without its environment;
\* otherwise enhance_photo starts and draws output_id.
ProcessPhoto ==
    /\ pc = "dispatch"
    /\ media_type # "video"
    /\ \E env \in BOOLEAN :
        IF env
        THEN /\ output_id' = nextId
             /\ nextId' = nextId + 1
             /\ pc' = "ai_enhance"
             /\ UNCHANGED << response, trace >>
        ELSE /\ Fail(<< Event("PhotoEnhancer", "raised", NoPath, NoPath) >>)
             /\ UNCHANGED << output_id, nextId >>
    /\ UNCHANGED << runs, request, disk, storage, media_path, media_type,
                    music_url, result, description, captions >>

\* process_video: enhance_video starts and draws output_id.
ProcessVideo ==
    /\ pc = "dispatch"
    /\ media_type = "video"
    /\ output_id' = nextId
    /\ nextId' = nextId + 1
    /\ pc' = "stabilize_video"
    /\ UNCHANGED << runs, request, disk, storage, media_path, media_type,
                    music_url, result, description, captions, response, trace >>

\* ------------------------------------------------------- PhotoEnhancer
enhanced == Path(output_id, "_enhanced.jpg")
corrected == Path(output_id, "_corrected.jpg")
filtered == Path(output_id, "_filtered.jpg")
thumbnail == Path(output_id, "_thumb.jpg")
\* PhotoTemps with the source file in the list
PhotoTempsWithSource == << enhanced, corrected, filtered, thumbnail, media_path >>
PhotoTemps == << enhanced, corrected, filtered, thumbnail >>

\* the service's answer for {"image": f, "scale": 2, "face_enhance": True}
Upscaled(p) ==
    IF Readable(p, "image") THEN Image(disk[p].w * SCALE, disk[p].h * SCALE) ELSE Garbage

\* Resized without the doubling
ResizedSameSize(p) ==
    IF Readable(p, "image") THEN Image(disk[p].w, disk[p].h) ELSE Garbage

\* img.resize((img.width * 2, img.height * 2), Image.LANCZOS)
Resized(p) ==
    IF Readable(p, "image") THEN Image(disk[p].w * 2, disk[p].h * 2) ELSE Garbage

\* ImageEnhance / ImageFilter keep the picture size
SameSize(p) ==
    IF Readable(p, "image") THEN Image(disk[p].w, disk[p].h) ELSE Garbage

\* img.thumbnail((400, 400)): unchanged when it fits, else shrunk to fit in
\* the box with the aspect ratio kept (rounded to the nearest pixel, at
\* least 1).
Thumbnail(p) ==
    LET c == disk[p]
    IN  IF ~Readable(p, "image") THEN Garbage
        ELSE IF c.w <= THUMB /\ c.h <= THUMB THEN Image(c.w, c.h)
        ELSE IF c.h >= c.w
        THEN Image(Max(1, (2 * THUMB * c.w + c.h) \div (2 * c.h)), THUMB)
        ELSE Image(THUMB, Max(1, (2 * THUMB * c.h + c.w) \div (2 * c.w)))

StageFrame == << runs, request, nextId, storage, media_path, media_type,
                 output_id, music_url, result, description, captions >>

AiEnhance ==
    /\ pc = "ai_enhance"
    /\ AiStage("ai_enhance", media_path, "image", enhanced,
               Upscaled(media_path), Resized(media_path), "color_correct")
    /\ UNCHANGED StageFrame

ColorCorrect ==
    /\ pc = "color_correct"
    /\ LocalStage("color_correct", enhanced, "image", corrected,
                  SameSize(enhanced), "apply_filters")
    /\ UNCHANGED StageFrame

\* ApplyFilters called with the wrong input variable
ApplyFiltersReadsEnhanced ==
    /\ pc = "apply_filters"
    /\ LocalStage("apply_filters", enhanced, "image", filtered,
                  SameSize(enhanced), "photo_thumbnail")
    /\ UNCHANGED StageFrame

ApplyFilters ==
    /\ pc = "apply_filters"
    /\ LocalStage("apply_filters", corrected, "image", filtered,
                  SameSize(corrected), "photo_thumbnail")
    /\ UNCHANGED StageFrame

PhotoGenerateThumbnail ==
    /\ pc = "photo_thumbnail"
    /\ LocalStage("generate_thumbnail", filtered, "image", thumbnail,
                  Thumbnail(filtered), "photo_upload_media")
    /\ UNCHANGED StageFrame

UploadFrame == << runs, request, disk, media_path, media_type, output_id,
                  music_url, description, captions >>

\* PhotoUploadMedia called before the thumbnail is generated
PhotoUploadMediaEarly ==
    /\ pc = "photo_thumbnail"
    /\ Upload("upload_media", filtered, "processed_media", "jpg", "media_url",
              "photo_upload_thumbnail")
    /\ UNCHANGED UploadFrame

PhotoUploadMedia ==
    /\ pc = "photo_upload_media"
    /\ Upload("upload_media", filtered, "processed_media", "jpg", "media_url",
              "photo_upload_thumbnail")
    /\ UNCHANGED UploadFrame

PhotoUploadThumbnail ==
    /\ pc = "photo_upload_thumbnail"
    /\ Upload("upload_thumbnail", thumbnail, "thumbnails", "jpg", "thumbnail_url",
              "photo_cleanup")
    /\ UNCHANGED UploadFrame

CleanupFrame == << runs, request, nextId, storage, media_path, media_type,
                   output_id, music_url, description, captions >>

\* PhotoCleanup returning a track of the music library
PhotoCleanupWithMusic ==
    /\ pc = "photo_cleanup"
    /\ Cleanup(PhotoTemps, "describe_image")
    /\ result' = IF pc' = "done" THEN result
                 ELSE [result EXCEPT !.music_url = MUSIC_LIBRARY[1],
                                     !.ai_style = "enhanced"]
    /\ UNCHANGED CleanupFrame

\* the cleanup loop and the returned dict of enhance_photo
PhotoCleanup ==
    /\ pc = "photo_cleanup"
    /\ Cleanup(PhotoTemps, "describe_image")
    /\ result' = IF pc' = "done" THEN result
                 ELSE [result EXCEPT !.music_url = NoMusic, !.ai_style = "enhanced"]
    /\ UNCHANGED CleanupFrame

\* ------------------------------------------------------- VideoEnhancer
stabilized == Path(output_id, "_stabilized.mp4")
graded == Path(output_id, "_graded.mp4")
upscaled == Path(output_id, "_upscaled.mp4")
final == Path(output_id, "_final.mp4")
mobile == Path(output_id, "_mobile.mp4")
VideoTemps == << stabilized, graded, upscaled, final, mobile, thumbnail >>

StabilizeVideo ==
    /\ pc = "stabilize_video"
    /\ LocalStage("stabilize_video", media_path, "video", stabilized, Video,
                  "apply_color_grade")
    /\ UNCHANGED StageFrame

ApplyColorGrade ==
    /\ pc = "apply_color_grade"
    /\ LocalStage("apply_color_grade", stabilized, "video", graded, Video,
                  "upscale_video")
    /\ UNCHANGED StageFrame

UpscaleVideo ==
    /\ pc = "upscale_video"
    /\ AiStage("upscale_video", graded, "video", upscaled, Video, Video,
               "add_transitions")
    /\ UNCHANGED StageFrame

AddTransitions ==
    /\ pc = "add_transitions"
    /\ LocalStage("add_transitions", upscaled, "video", final, Video,
                  "reframe_to_mobile")
    /\ UNCHANGED StageFrame

ReframeToMobile ==
    /\ pc = "reframe_to_mobile"
    /\ LocalStage("reframe_to_mobile", final, "video", mobile, Video,
                  "video_thumbnail")
    /\ UNCHANGED StageFrame

VideoGenerateThumbnail ==
    /\ pc = "video_thumbnail"
    /\ LocalStage("generate_thumbnail", mobile, "video", thumbnail,
                  Image(MOBILE_W, MOBILE_H), "select_music")
    /\ UNCHANGED StageFrame

\* random.choice(self.music_library)
SelectMusic ==
    /\ pc = "select_music"
    /\ \E i \in 1..Len(MUSIC_LIBRARY) : music_url' = MUSIC_LIBRARY[i]
    /\ pc' = "video_upload_media"
    /\ trace' = Append(trace, Event("select_music", "", mobile, NoPath))
    /\ UNCHANGED << runs, request, nextId, disk, storage, media_path, media_type,
                    output_id, result, description, captions, response >>

VideoUploadMedia ==
    /\ pc = "video_upload_media"
    /\ Upload("upload_media", mobile, "processed_media", "mp4", "media_url",
              "video_upload_thumbnail")
    /\ UNCHANGED UploadFrame

VideoUploadThumbnail ==
    /\ pc = "video_upload_thumbnail"
    /\ Upload("upload_thumbnail", thumbnail, "thumbnails", "jpg", "thumbnail_url",
              "video_cleanup")
    /\ UNCHANGED UploadFrame

\* the cleanup loop and the returned dict of enhance_video
VideoCleanup ==
    /\ pc = "video_cleanup"
    /\ Cleanup(VideoTemps, "describe_image")
    /\ result' = IF pc' = "done" THEN result
                 ELSE [result EXCEPT !.music_url = music_url, !.ai_style = "cinematic"]
    /\ UNCHANGED CleanupFrame

\* ------------------------------------------------------------------ Init
Init ==
    /\ pc = "idle"
    /\ runs = 0
    /\ request = [user_id |-> "u1", suffix |-> ".jpg"]
    /\ nextId = 1
    /\ disk = << >>
    /\ storage = {}
    /\ media_path = NoPath
    /\ media_type = ""
    /\ output_id = 0
    /\ music_url = NoMusic
    /\ result = NoResult
    /\ description = ""
    /\ captions = JNull
    /\ response = NoResponse
    /\ trace = << >>

\* ----------------------------------------------------- CaptionGenerator
FallbackList == JList([i \in 1..Len(FALLBACK_CAPTIONS) |-> JStr(FALLBACK_CAPTIONS[i])])

\* what json.loads can return for the caption model's answer
StringList(n) == JList([i \in 1..n |-> JStr("c" \o ToString(i))])
ParsedValues ==
    {StringList(n) : n \in 0..MaxListLen}
    \cup {JList(<< JNum("7"), JStr("c2") >>)}
    \cup {JObject(<< >>), JObject(<< JStr("captions") >>), JStr(""), JStr("hello"),
          JNum("0"), JNum("5"), JBool("true"), JBool("false"), JNull}

CaptionFrame == << runs, request, nextId, disk, storage, media_path, media_type,
                   output_id, music_url, result, response >>

\* DescribeImage without its own try/except: the exception lands in the
\* except branch of generate_captions
DescribeImageRaises ==
    /\ pc = "describe_image"
    /\ \E ok \in BOOLEAN :
        /\ description' = IF ok THEN "a description" ELSE description
        /\ captions' = IF ok THEN captions ELSE FallbackList
        /\ pc' = IF ok THEN "generate_captions" ELSE "assemble"
        /\ trace' = Append(trace, Event("describe_image",
                                       IF ok THEN "" ELSE "call_error",
                                       NoPath, NoPath))
    /\ UNCHANGED CaptionFrame

\* describe_image: the vision call, or the fixed description when it raises
DescribeImage ==
    /\ pc = "describe_image"
    /\ \E ok \in BOOLEAN :
        /\ description' = IF ok THEN "a description" ELSE GENERIC_DESCRIPTION
        /\ trace' = Append(trace, Event("describe_image",
                                       IF ok THEN "" ELSE "call_error",
                                       NoPath, NoPath))
    /\ pc' = "generate_captions"
    /\ UNCHANGED << captions, CaptionFrame >>

\* the rest of generate_captions: the chat call, json.loads of its answer,
\* "return captions"; any exception returns the literal list
GenerateCaptions ==
    /\ pc = "generate_captions"
    /\ \/ \E o \in {"call_error", "parse_error"} :
            /\ captions' = FallbackList
            /\ trace' = Append(trace, Event("caption_call", o, NoPath, NoPath))
       \/ \E v \in ParsedValues :
            /\ captions' = v
            /\ trace' = Append(trace, Event("caption_call", "", NoPath, NoPath))
    /\ pc' = "assemble"
    /\ UNCHANGED << description, CaptionFrame >>

\* Python truth value
Truthy(v) ==
    CASE v.t \in {"list", "object"} -> v.items # << >>
      [] v.t = "str" -> v.s # ""
      [] v.t = "num" -> v.s # "0"
      [] v.t = "bool" -> v.s = "true"
      [] OTHER -> FALSE

FirstChar(str) ==
    CASE str = "hello" -> "h"
      [] OTHER -> str

\* v[0] is defined for a non-empty list or string; a dict parsed from JSON has
\* no key 0 (KeyError), a number or a bool is not subscriptable (TypeError)
Subscriptable(v) ==
    \/ v.t = "list" /\ v.items # << >>
    \/ v.t = "str" /\ v.s # ""

Index0(v) == IF v.t = "list" THEN v.items[1] ELSE JStr(FirstChar(v.s))

\* process_media: result["caption"], result["captions"], result["media_type"]
Assemble ==
    /\ pc = "assemble"
    /\ IF Truthy(captions) /\ ~Subscriptable(captions)
       THEN /\ Fail(<< Event("assemble", "raised", NoPath, NoPath) >>)
            /\ UNCHANGED result
       ELSE /\ result' = [result EXCEPT
                            !.caption = IF Truthy(captions) THEN Index0(captions)
                                        ELSE JStr(""),
                            !.captions = captions,
                            !.media_type = media_type]
            /\ pc' = "remove_source"
            /\ trace' = Append(trace, Event("assemble", "", NoPath, NoPath))
            /\ UNCHANGED response
    /\ UNCHANGED << runs, request, nextId, disk, storage, media_path, media_type,
                    output_id, music_url, description, captions >>

\* process_media: os.remove(media_path)
RemoveSource ==
    /\ pc = "remove_source"
    /\ \E ok \in BOOLEAN :
        IF ok /\ Exists(media_path)
        THEN /\ disk' = RemoveFile(disk, media_path)
             /\ pc' = "return"
             /\ trace' = Append(trace, Event("remove_source", "", NoPath, media_path))
             /\ UNCHANGED response
        ELSE /\ Fail(<< Event("remove_source", "raised", NoPath, media_path) >>)
             /\ UNCHANGED disk
    /\ UNCHANGED << runs, request, nextId, storage, media_path, media_type,
                    output_id, music_url, result, description, captions >>

\* response_model=ProcessResult: caption must be a str and captions a list of
\* str.  Whether a number is accepted as a str (and converted) depends on the
\* installed pydantic: lax is that choice.
IsStr(v, lax) == v.t = "str" \/ (lax /\ v.t = "num")
AsStr(v) == JStr(v.s)

Validates(r, lax) ==
    /\ IsStr(r.caption, lax)
    /\ r.captions.t = "list"
    /\ \A i \in 1..Len(r.captions.items) : IsStr(r.captions.items[i], lax)

Validated(r) ==
    [r EXCEPT !.caption = AsStr(r.caption),
              !.captions = JList([i \in 1..Len(r.captions.items) |->
                                     AsStr(r.captions.items[i])])]

\* process_media: "return result", validated against ProcessResult
Return ==
    /\ pc = "return"
    /\ \E lax \in BOOLEAN :
        IF Validates(result, lax)
        THEN /\ response' = [status |-> "ok", body |-> Validated(result)]
             /\ pc' = "done"
             /\ trace' = Append(trace, Event("return", "", NoPath, NoPath))
        ELSE Fail(<< Event("return", "raised", NoPath, NoPath) >>)
    /\ UNCHANGED << runs, request, nextId, disk, storage, media_path, media_type,
                    output_id, music_url, result, description, captions >>

Next ==
    \/ DownloadMedia
    \/ ProcessPhoto
    \/ ProcessVideo
    \/ AiEnhance
    \/ ColorCorrect
    \/ ApplyFilters
    \/ PhotoGenerateThumbnail
    \/ PhotoUploadMedia
    \/ PhotoUploadThumbnail
    \/ PhotoCleanup
    \/ StabilizeVideo
    \/ ApplyColorGrade
    \/ UpscaleVideo
    \/ AddTransitions
    \/ ReframeToMobile
    \/ VideoGenerateThumbnail
    \/ SelectMusic
    \/ VideoUploadMedia
    \/ VideoUploadThumbnail
    \/ VideoCleanup
    \/ DescribeImage
    \/ GenerateCaptions
    \/ Assemble
    \/ RemoveSource
    \/ Return

Spec == Init /\ [][Next]_vars

TypeOK ==
    /\ pc \in STRING
    /\ runs \in 0..MaxRuns
    /\ response.status \in {"pending", "ok", "error"}

\* ------------------------------------- one request (RequestSpec, LiveSpec)
\* One request from its arrival to its end, for what is said of a single
\* run.  Arrive is the request reaching an idle worker; Advance is a step of
\* the request being handled, that is every other action.  In LiveSpec a step
\* that can be taken is taken once the call it waits for has returned or
\* failed (process_media is one coroutine that awaits each call in turn):
\* weak fairness on Advance.  Nothing makes a request arrive: no fairness on
\* Arrive.
Arrive ==
    /\ pc = "idle"
    /\ DownloadMedia

Advance ==
    \/ ProcessPhoto
    \/ ProcessVideo
    \/ AiEnhance
    \/ ColorCorrect
    \/ ApplyFilters
    \/ PhotoGenerateThumbnail
    \/ PhotoUploadMedia
    \/ PhotoUploadThumbnail
    \/ PhotoCleanup
    \/ StabilizeVideo
    \/ ApplyColorGrade
    \/ UpscaleVideo
    \/ AddTransitions
    \/ ReframeToMobile
    \/ VideoGenerateThumbnail
    \/ SelectMusic
    \/ VideoUploadMedia
    \/ VideoUploadThumbnail
    \/ VideoCleanup
    \/ DescribeImage
    \/ GenerateCaptions
    \/ Assemble
    \/ RemoveSource
    \/ Return

RequestNext ==
    \/ Arrive
    \/ Advance

RequestSpec == Init /\ [][RequestNext]_vars

LiveSpec == Init /\ [][RequestNext]_vars /\ WF_vars(Advance)

\* ================================================================ claims
Last(seq) == seq[Len(seq)]
Range(seq) == {seq[i] : i \in 1..Len(seq)}
Finished == pc = "done"
\* enhance_photo / enhance_video has returned its dict
PipelineReturned == result.ai_style # ""
LastFailed(op) == trace # << >> /\ Last(trace).op = op /\ ~Ok(Last(trace))

\* C1: once a request has ended, with a result or with an error raised at
\* any stage or upload, no temp file created by its pipeline run (a path
\* named after the run's output_id) is left on disk.
C1_NoTempFilesRemain ==
    (Finished /\ output_id # 0) => \A p \in DOMAIN disk : p.id # output_id

\* C2: every FinalResult carries between 1 and 5 captions and its caption is
\* the first of them.
C2_CaptionsShape ==
    response.status = "ok" =>
        /\ Len(response.body.captions.items) \in 1..5
        /\ response.body.caption = response.body.captions.items[1]

\* C3: when the pipeline and its uploads succeeded (and the source file could
\* be deleted), the request ends with a FinalResult whatever the describe and
\* caption calls did.
C3_CaptionFailuresNeverPropagate ==
    (Finished /\ PipelineReturned /\ ~LastFailed("remove_source")) =>
        response.status = "ok"

\* C4: when generate_captions has returned after a failure of the caption
\* call (the call raised, its text did not parse, or it parsed to an empty
\* result), the value it returned is the fixed 5-item list.
EmptyResult(v) == v.t \in {"list", "object", "str"} /\ ~Truthy(v)
C4_FailureModesReturnFallback ==
    (pc = "assemble" /\ (~Ok(Last(trace)) \/ EmptyResult(captions))) =>
        captions = FallbackList

\* C5: when the caption model's answer parsed to something that is not a
\* list (an object, a number, a string), the request's result carries
\* exactly the fixed 5-item list as captions.
NonListAnswer ==
    /\ \E i \in 1..Len(trace) : trace[i].op = "caption_call" /\ Ok(trace[i])
    /\ captions.t \in {"object", "num", "str"}
C5_NonListAnswerGivesFallback ==
    (Finished /\ NonListAnswer /\ ~LastFailed("remove_source")) =>
        /\ response.status = "ok"
        /\ response.body.captions = FallbackList

\* C6: after a stage has returned without error its output file exists at
\* the stage's slot and holds media of the expected kind.
StageOutput ==
    [color_correct |-> << enhanced, "image" >>,
     apply_filters |-> << corrected, "image" >>,
     photo_thumbnail |-> << filtered, "image" >>,
     photo_upload_media |-> << thumbnail, "image" >>,
     apply_color_grade |-> << stabilized, "video" >>,
     upscale_video |-> << graded, "video" >>,
     add_transitions |-> << upscaled, "video" >>,
     reframe_to_mobile |-> << final, "video" >>,
     video_thumbnail |-> << mobile, "video" >>,
     select_music |-> << thumbnail, "image" >>]
C6_StageOutputValid ==
    pc \in DOMAIN StageOutput => Readable(StageOutput[pc][1], StageOutput[pc][2])

\* C7: in ai_enhance and upscale_video every failure of the primary path is
\* followed by a run of the local fallback, and when that fallback succeeds
\* the pipeline goes on to the next stage without an error.
IsPrimary(e) == e.op \in {"ai_enhance.primary", "upscale_video.primary"}
IsFallback(e) == e.op \in {"ai_enhance.fallback", "upscale_video.fallback"}
C7_PrimaryFailureRunsFallback ==
    \A i \in 1..Len(trace) :
        (IsPrimary(trace[i]) /\ ~Ok(trace[i])) =>
            /\ i < Len(trace)
            /\ IsFallback(trace[i + 1])
            /\ trace[i + 1].src = trace[i].src
            /\ Ok(trace[i + 1]) =>
                  ~(Finished /\ Len(trace) = i + 1 /\ response.status = "error")

\* C8: a stage that raises (its only method failed, or its primary and its
\* fallback both failed) is the last call of the run: no later stage and no
\* upload runs, nothing of the run is stored, and the request ends with one
\* error and no result.
LocalOps == {"color_correct", "apply_filters", "generate_thumbnail",
             "stabilize_video", "apply_color_grade", "add_transitions",
             "reframe_to_mobile"}
IsUpload(e) == e.op \in {"upload_media", "upload_thumbnail"}
StageRaised(e) == (e.op \in LocalOps \/ IsFallback(e)) /\ ~Ok(e)
C8_StageFailureEndsRun ==
    \A i \in 1..Len(trace) :
        StageRaised(trace[i]) =>
            /\ i = Len(trace)
            /\ \A j \in 1..Len(trace) : ~IsUpload(trace[j])
            /\ \A o \in storage : o.url.id < output_id
            /\ Finished
            /\ response = [status |-> "error", body |-> NoResult]
C8_Witness_BothFailed ==
    /\ Finished
    /\ Len(trace) >= 2
    /\ IsFallback(Last(trace)) /\ ~Ok(Last(trace))
    /\ IsPrimary(trace[Len(trace) - 1]) /\ ~Ok(trace[Len(trace) - 1])

\* C9: in a photo run whose super-resolution call fails and whose local
\* stages, uploads and cleanup all succeed, enhance_photo returns, and the
\* uploaded media is an image at least twice as wide and twice as high as
\* the source.
PipelineOps == LocalOps \cup {"ai_enhance.primary", "ai_enhance.fallback",
                              "upscale_video.primary", "upscale_video.fallback",
                              "PhotoEnhancer", "select_music", "upload_media",
                              "upload_thumbnail", "cleanup"}
OnlyPrimaryFailed(op, i) ==
    /\ trace[i].op = op
    /\ PrimaryRaises(trace[i].err)
    /\ \A j \in 1..Len(trace) :
          (j # i /\ trace[j].op \in PipelineOps) => Ok(trace[j])
C9_FallbackDoublesSize ==
    (media_type = "photo"
       /\ \E i \in 1..Len(trace) : OnlyPrimaryFailed("ai_enhance.primary", i)) =>
        /\ Finished => PipelineReturned
        /\ (result.media_url # NoUrl /\ Exists(media_path)) =>
              \E o \in storage :
                  /\ o.url = result.media_url
                  /\ o.content.kind = "image"
                  /\ o.content.w >= 2 * disk[media_path].w
                  /\ o.content.h >= 2 * disk[media_path].h
C9_Witness ==
    /\ media_type = "photo"
    /\ \E i \in 1..Len(trace) : OnlyPrimaryFailed("ai_enhance.primary", i)
    /\ PipelineReturned
    /\ Exists(media_path)
    /\ disk[media_path].w = THUMB

\* C10: in a video run whose super-resolution call fails and whose every
\* other call succeeds, the call right after the failed primary upscale is
\* the local-scale fallback (the only fallback of the run), and the result
\* has ai_style "cinematic" and a music_url taken from the music library.
AllOtherOk(i) == \A j \in 1..Len(trace) : j # i => Ok(trace[j])
C10_VideoFallbackTrace ==
    \A i \in 1..Len(trace) :
        (media_type = "video" /\ trace[i].op = "upscale_video.primary"
           /\ PrimaryRaises(trace[i].err) /\ AllOtherOk(i)) =>
            /\ i < Len(trace)
            /\ trace[i + 1].op = "upscale_video.fallback"
            /\ \A j \in 1..Len(trace) : IsFallback(trace[j]) => j = i + 1
            /\ Finished =>
                  /\ response.status = "ok"
                  /\ response.body.ai_style = "cinematic"
                  /\ response.body.music_url \in Range(MUSIC_LIBRARY)
C10_Witness ==
    /\ Finished
    /\ response.status = "ok"
    /\ media_type = "video"
    /\ \E i \in 1..Len(trace) :
          /\ trace[i].op = "upscale_video.primary"
          /\ PrimaryRaises(trace[i].err)
          /\ AllOtherOk(i)

\* C11: once a request whose download succeeded has ended, with a result or
\* with an error from the pipeline, the caption assembly or the result
\* validation, the downloaded source file is no longer on disk.
C11_SourceRemovedOnEveryExit ==
    (Finished /\ media_path # NoPath) => ~Exists(media_path)

\* C12: when the download fails the request ends at once with an error: no
\* other call is made, no file is written and no object is stored.
DownloadFailed(t) == t # << >> /\ t[1].op = "download_media" /\ ~Ok(t[1])
C12_DownloadFailureStopsJob ==
    [][DownloadFailed(trace') =>
          /\ Len(trace') = 1
          /\ pc' = "done"
          /\ response' = [status |-> "error", body |-> NoResult]
          /\ storage' = storage
          /\ disk' = disk
          /\ nextId' = nextId]_vars
C12_Witness ==
    /\ Finished
    /\ DownloadFailed(trace)
    /\ response.status = "error"

\* C13: a request ends either with a complete FinalResult or with one
\* error and no result, and after an error no object stored by that request
\* exists in the buckets.
CompleteResult(r) ==
    /\ r.media_url # NoUrl /\ r.thumbnail_url # NoUrl
    /\ r.ai_style # "" /\ r.media_type # ""
    /\ r.caption.t = "str" /\ r.captions.t = "list"
C13_ResultOrCleanFailure ==
    Finished =>
        \/ response.status = "ok" /\ CompleteResult(response.body)
        \/ /\ response = [status |-> "error", body |-> NoResult]
           /\ media_path # NoPath => \A o \in storage : o.url.id < media_path.id

\* C14: a successful request makes its calls in this order: the stages, the
\* media upload, the thumbnail upload, the temp-file cleanup, the caption
\* calls, the assembly of the result, the deletion of the source file.
\* When the caption calls start, both objects are stored and no temp file of
\* the run is left; the source file is there until the result is assembled.
Phase(op) ==
    CASE op = "download_media" -> 0
      [] op = "upload_media" -> 2
      [] op = "upload_thumbnail" -> 3
      [] op = "cleanup" -> 4
      [] op = "describe_image" -> 5
      [] op = "caption_call" -> 6
      [] op = "assemble" -> 7
      [] op = "remove_source" -> 8
      [] op = "return" -> 9
      [] OTHER -> 1
Count(op) == Cardinality({i \in 1..Len(trace) : trace[i].op = op})
Stored(url) == \E o \in storage : o.url = url
C14_LifecycleOrder ==
    /\ response.status = "ok" =>
          /\ \A i, j \in 1..Len(trace) :
                i < j => Phase(trace[i].op) <= Phase(trace[j].op)
          /\ \A op \in {"download_media", "upload_media", "upload_thumbnail",
                        "cleanup", "describe_image", "caption_call", "assemble",
                        "remove_source", "return"} : Count(op) = 1
          /\ \E i \in 1..Len(trace) : Phase(trace[i].op) = 1
    /\ pc \in {"describe_image", "generate_captions", "assemble", "remove_source"} =>
          /\ \A p \in DOMAIN disk : p.id # output_id
          /\ Stored(result.media_url) /\ Stored(result.thumbnail_url)
          /\ result.media_url.bucket = "processed_media"
          /\ Exists(media_path)
    /\ pc = "remove_source" => result.media_type # "" /\ result.captions = captions
    /\ pc = "return" => ~Exists(media_path)
C14_Witness ==
    /\ response.status = "ok"
    /\ media_type = "video"
    /\ Len(trace) >= 15

\* C15: the stages of a run are called in the pipeline's order (photo:
\* ai_enhance, color_correct, apply_filters, generate_thumbnail; video:
\* stabilize, color grade, upscale, transitions, reframe, thumbnail); a stage
\* starts only after the one before it has returned, reads the file that one
\* wrote, and that file is on disk; the first stage reads the downloaded
\* file; a fallback reads and writes what its primary did.
PhotoOrder == << "ai_enhance", "color_correct", "apply_filters", "generate_thumbnail" >>
VideoOrder == << "stabilize_video", "apply_color_grade", "upscale_video",
                 "add_transitions", "reframe_to_mobile", "generate_thumbnail" >>
IsStage(e) == e.op \in LocalOps \/ IsPrimary(e) \/ IsFallback(e)
IsStageStart(e) == IsStage(e) /\ ~IsFallback(e)
StageName(e) ==
    CASE e.op \in {"ai_enhance.primary", "ai_enhance.fallback"} -> "ai_enhance"
      [] e.op \in {"upscale_video.primary", "upscale_video.fallback"} -> "upscale_video"
      [] OTHER -> e.op
C15_StagesSequential ==
    LET S == SelectSeq(trace, IsStage)
        T == SelectSeq(trace, IsStageStart)
        order == IF media_type = "video" THEN VideoOrder ELSE PhotoOrder
    IN  /\ Len(T) <= Len(order)
        /\ \A k \in 1..Len(T) : StageName(T[k]) = order[k]
        /\ \A k \in 1..Len(S) :
              IF IsFallback(S[k])
              THEN /\ k > 1
                   /\ IsPrimary(S[k - 1]) /\ PrimaryRaises(S[k - 1].err)
                   /\ S[k].src = S[k - 1].src /\ S[k].dst = S[k - 1].dst
              ELSE IF k = 1 THEN S[k].src = media_path
              ELSE /\ ~StageRaised(S[k - 1])
                   /\ ~PrimaryRaises(S[k - 1].err)
                   /\ S[k].src = S[k - 1].dst
        /\ \A k \in 1..Len(trace) :
              IsStage(trace[k]) =>
                  \E j \in 1..(k - 1) : trace[j].dst = trace[k].src
        /\ pc \in DOMAIN StageOutput => Exists(StageOutput[pc][1])
C15_Witness ==
    /\ pc = "select_music"
    /\ \E i \in 1..Len(trace) : IsFallback(trace[i])
    /\ Len(SelectSeq(trace, IsStageStart)) = Len(VideoOrder)

\* C17: a FinalResult of a photo has no music_url, a FinalResult of a video
\* has one of the three URLs of the music library.
C17_MusicUrlByMediaType ==
    response.status = "ok" =>
        /\ response.body.media_type \in {"photo", "video"}
        /\ response.body.media_type = "photo" => response.body.music_url = NoMusic
        /\ response.body.media_type = "video" =>
              response.body.music_url \in {"https://example.com/music/upbeat1.mp3",
                                           "https://example.com/music/chill1.mp3",
                                           "https://example.com/music/energetic1.mp3"}
C17_Witness_Photo ==
    response.status = "ok" /\ response.body.media_type = "photo"

\* C19: the media type is "video" exactly when the lower-cased extension of
\* the downloaded file is mp4, mov, avi, mkv or webm, and "photo" otherwise;
\* video-pipeline calls are made only for a video and photo-pipeline calls
\* only for a photo; a FinalResult has ai_style "cinematic" iff its
\* media_type is "video" and "enhanced" iff it is "photo".
VideoOnlyOps == {"stabilize_video", "apply_color_grade", "upscale_video.primary",
                 "upscale_video.fallback", "add_transitions", "reframe_to_mobile",
                 "select_music"}
PhotoOnlyOps == {"PhotoEnhancer", "ai_enhance.primary", "ai_enhance.fallback",
                 "color_correct", "apply_filters"}
C19_TypeByExtension ==
    /\ \A s \in {".mp4", ".MP4", ".mov", ".MOV", ".avi", ".mkv", ".webm"} :
          detect_media_type(s) = "video"
    /\ \A s \in {".jpg", ".JPG", ".png", ".gif", ".mp3", ".mp", ""} :
          detect_media_type(s) = "photo"
    /\ media_path # NoPath =>
          /\ media_path.name = request.suffix
          /\ media_type \in {"photo", "video"}
          /\ media_type = "video" <=>
                media_path.name \in {".mp4", ".MP4", ".mov", ".MOV", ".avi",
                                     ".mkv", ".webm"}
    /\ \A i \in 1..Len(trace) :
          /\ trace[i].op \in VideoOnlyOps => media_type = "video"
          /\ trace[i].op \in PhotoOnlyOps => media_type = "photo"
    /\ pc \in {"stabilize_video", "apply_color_grade", "upscale_video",
               "add_transitions", "reframe_to_mobile", "video_thumbnail",
               "select_music", "video_upload_media", "video_upload_thumbnail",
               "video_cleanup"} => media_type = "video"
    /\ pc \in {"ai_enhance", "color_correct", "apply_filters", "photo_thumbnail",
               "photo_upload_media", "photo_upload_thumbnail", "photo_cleanup"} =>
          media_type = "photo"
    /\ response.status = "ok" =>
          /\ response.body.media_type = media_type
          /\ response.body.ai_style = "cinematic" <=> response.body.media_type = "video"
          /\ response.body.ai_style = "enhanced" <=> response.body.media_type = "photo"
C19_Witness_UpperCase ==
    /\ response.status = "ok"
    /\ request.suffix = ".MOV"
    /\ response.body.media_type = "video"

\* C20: when the vision call of describe_image fails, describe_image returns
\* the fixed generic description, the caption call is still the next call,
\* and when that call answers with a list of strings that list, not the
\* fallback list, is what generate_captions returns and what the result
\* carries.
IsStringList(v) ==
    /\ v.t = "list" /\ v.items # << >>
    /\ \A k \in 1..Len(v.items) : v.items[k].t = "str"
C20_DescribeFailureKeepsCaptions ==
    \A i \in 1..Len(trace) :
        (trace[i].op = "describe_image" /\ ~Ok(trace[i])) =>
            /\ description = "A beautifully captured moment"
            /\ Len(trace) = i => pc = "generate_captions"
            /\ Len(trace) > i => trace[i + 1].op = "caption_call"
            /\ (Len(trace) > i /\ Ok(trace[i + 1]) /\ IsStringList(captions)) =>
                  /\ captions # FallbackList
                  /\ captions \in ParsedValues
                  /\ response.status = "ok" => response.body.captions = captions
C20_Witness ==
    /\ response.status = "ok"
    /\ \E i \in 1..Len(trace) : trace[i].op = "describe_image" /\ ~Ok(trace[i])
    /\ response.body.captions = StringList(5)

\* C21: within one request no call is made twice: the download, every
\* stage's primary and fallback method, each upload, the cleanup, the
\* describe call and the caption call appear at most once in the run's
\* trace; a fallback comes right after the primary method of the same stage,
\* and that primary raised.
C21_NothingRetried ==
    /\ Cardinality({trace[i].op : i \in 1..Len(trace)}) = Len(trace)
    /\ \A i \in 1..Len(trace) :
          IsFallback(trace[i]) =>
              /\ i > 1
              /\ IsPrimary(trace[i - 1])
              /\ StageName(trace[i - 1]) = StageName(trace[i])
              /\ PrimaryRaises(trace[i - 1].err)
C21_Witness ==
    /\ response.status = "ok"
    /\ media_type = "photo"
    /\ \E i \in 1..Len(trace) : IsFallback(trace[i]) /\ Ok(trace[i])
    /\ \E i \in 1..Len(trace) : trace[i].op = "caption_call" /\ ~Ok(trace[i])

\* C22: an upload is made only after every stage of the run's pipeline,
\* thumbnail generation included, has returned without raising; when the
\* pipeline has returned its dict the run has made exactly two uploads, first
\* the final media file (filtered image / mobile video) to "processed_media",
\* then the thumbnail to "thumbnails", and both objects are stored under a
\* key that starts with the request's user_id.
StageReturned(e) == IsStage(e) /\ (Ok(e) \/ (IsPrimary(e) /\ ~PrimaryRaises(e.err)))
AllStagesReturnedBefore(i) ==
    LET order == IF media_type = "video" THEN VideoOrder ELSE PhotoOrder
    IN  /\ \A k \in 1..Len(order) :
              \E j \in 2..(i - 1) : StageReturned(trace[j]) /\ StageName(trace[j]) = order[k]
        /\ \A j \in 2..(i - 1) :
              IsStage(trace[j]) /\ ~StageReturned(trace[j]) =>
                  /\ IsPrimary(trace[j])
                  /\ StageReturned(trace[j + 1])
C22_UploadsAfterStages ==
    LET U == {i \in 1..Len(trace) : IsUpload(trace[i])}
    IN  /\ U # {} =>
              LET first == CHOOSE i \in U : \A k \in U : i <= k
              IN  /\ AllStagesReturnedBefore(first)
                  /\ trace[first].op = "upload_media"
                  /\ trace[first].src.name \in {"_filtered.jpg", "_mobile.mp4"}
                  /\ U \subseteq {first, first + 1}
                  /\ (first + 1) \in U =>
                        /\ Ok(trace[first])
                        /\ trace[first + 1].op = "upload_thumbnail"
                        /\ trace[first + 1].src.name = "_thumb.jpg"
        /\ (PipelineReturned /\ pc # "idle") =>
              /\ Cardinality(U) = 2
              /\ \A i \in U : Ok(trace[i])
              /\ result.media_url.bucket = "processed_media"
              /\ result.thumbnail_url.bucket = "thumbnails"
              /\ result.media_url.user_id = request.user_id
              /\ result.thumbnail_url.user_id = request.user_id
              /\ result.media_url.id < result.thumbnail_url.id
              /\ Stored(result.media_url) /\ Stored(result.thumbnail_url)
              /\ Cardinality({o \in storage : o.url.id > output_id}) = 2
C22_Witness ==
    /\ pc = "describe_image"
    /\ media_type = "video"
    /\ PipelineReturned
    /\ Count("upload_media") = 1 /\ Count("upload_thumbnail") = 1
    /\ \E i \in 1..Len(trace) : IsFallback(trace[i]) /\ Ok(trace[i])

\* C23: from the end of the download until process_media's own os.remove,
\* every step leaves the source file on disk with the content it was
\* downloaded with; a step of enhance_photo / enhance_video writes or deletes
\* only paths named after the run's output_id, and the cleanup loop only
\* deletes, and only such paths.
PipelinePcs ==
    {"dispatch", "ai_enhance", "color_correct", "apply_filters", "photo_thumbnail",
     "photo_upload_media", "photo_upload_thumbnail", "photo_cleanup",
     "stabilize_video", "apply_color_grade", "upscale_video", "add_transitions",
     "reframe_to_mobile", "video_thumbnail", "select_music", "video_upload_media",
     "video_upload_thumbnail", "video_cleanup"}
BeforeRemoveSource == PipelinePcs \cup {"describe_image", "generate_captions", "assemble"}
Changed(p) ==
    \/ p \notin DOMAIN disk
    \/ p \notin DOMAIN disk'
    \/ disk'[p] # disk[p]
C23_SourceUntouchedByPipeline ==
    [][ /\ pc \in BeforeRemoveSource =>
              /\ media_path' = media_path
              /\ media_path \in DOMAIN disk
              /\ media_path \in DOMAIN disk'
              /\ disk'[media_path] = disk[media_path]
        /\ pc \in PipelinePcs =>
              \A p \in (DOMAIN disk) \cup (DOMAIN disk') :
                  Changed(p) => p.id = output_id' /\ p.id # media_path.id
        /\ pc \in {"photo_cleanup", "video_cleanup"} =>
              /\ DOMAIN disk' \subseteq DOMAIN disk
              /\ \A p \in DOMAIN disk' : disk'[p] = disk[p]
      ]_vars
C23_Witness ==
    /\ pc = "describe_image"
    /\ media_type = "photo"
    /\ Exists(media_path) /\ disk[media_path].kind = "image"
    /\ \A p \in DOMAIN disk : p.id # output_id
    /\ Count("cleanup") = 1

\* C24: a request that is being handled always has a step it can take, and
\* it ends: the caller gets a complete result or an error.
InRun == pc \notin {"idle", "done"}
Terminated ==
    /\ pc = "done"
    /\ \/ response.status = "error"
       \/ response.status = "ok" /\ CompleteResult(response.body)
C24_RunTerminates ==
    /\ [](InRun => ENABLED << Advance >>_vars)
    /\ InRun ~> Terminated
C24_Witness ==
    /\ Terminated
    /\ response.status = "ok"
    /\ media_type = "video"
    /\ Len(trace) = 17

\* ============================================ concurrent requests (SpecPar)
\* Two requests handled by the same worker process: each /process call is
\* its own coroutine, the temp directory, the buckets and the uuid source
\* are shared.  Here every per-request variable is a function of the job.
\* An event records the paths the call touched (read, wrote or deleted) and
\* the paths it created; trace[j] accumulates them for job j, with the
\* number of objects the job stored.
Jobs == {"A", "B"}
ParSuffixes == {".jpg", ".mp4"}

At(at, step) == [at |-> at, step |-> step]
ParEvent(op, err, touched, created) ==
    [op |-> op, err |-> err, touched |-> touched, created |-> created]
ParContent(media) == IF media = "image" THEN Image(1, 1) ELSE Video

Step(kind, op, src, dst, media) ==
    [kind |-> kind, op |-> op, src |-> src, dst |-> dst, media |-> media]

\* enhance_photo, statement by statement ("" is the downloaded file)
PhotoSteps ==
    << Step("ai", "ai_enhance", "", "_enhanced.jpg", "image"),
       Step("local", "color_correct", "_enhanced.jpg", "_corrected.jpg", "image"),
       Step("local", "apply_filters", "_corrected.jpg", "_filtered.jpg", "image"),
       Step("local", "generate_thumbnail", "_filtered.jpg", "_thumb.jpg", "image"),
       Step("upload", "upload_media", "_filtered.jpg", "processed_media", "jpg"),
       Step("upload", "upload_thumbnail", "_thumb.jpg", "thumbnails", "jpg"),
       Step("cleanup", "cleanup", "", "", "") >>

\* enhance_video, statement by statement
VideoSteps ==
    << Step("local", "stabilize_video", "", "_stabilized.mp4", "video"),
       Step("local", "apply_color_grade", "_stabilized.mp4", "_graded.mp4", "video"),
       Step("ai", "upscale_video", "_graded.mp4", "_upscaled.mp4", "video"),
       Step("local", "add_transitions", "_upscaled.mp4", "_final.mp4", "video"),
       Step("local", "reframe_to_mobile", "_final.mp4", "_mobile.mp4", "video"),
       Step("local", "generate_thumbnail", "_mobile.mp4", "_thumb.jpg", "video"),
       Step("music", "select_music", "_mobile.mp4", "", ""),
       Step("upload", "upload_media", "_mobile.mp4", "processed_media", "mp4"),
       Step("upload", "upload_thumbnail", "_thumb.jpg", "thumbnails", "jpg"),
       Step("cleanup", "cleanup", "", "", "") >>

StepsOf(j) == IF media_type[j] = "video" THEN VideoSteps ELSE PhotoSteps
Current(j) == StepsOf(j)[pc[j].step]
InPipeline(j, kind) == pc[j].at = "pipeline" /\ Current(j).kind = kind
AfterStep(j) ==
    IF pc[j].step < Len(StepsOf(j)) THEN At("pipeline", pc[j].step + 1)
    ELSE At("captions", 0)

\* the path a step names: the downloaded file or a temp file of the run
PathOf(j, name) == IF name = "" THEN media_path[j] ELSE Path(output_id[j], name)
TempsOf(j) ==
    IF media_type[j] = "video"
    THEN << PathOf(j, "_stabilized.mp4"), PathOf(j, "_graded.mp4"),
            PathOf(j, "_upscaled.mp4"), PathOf(j, "_final.mp4"),
            PathOf(j, "_mobile.mp4"), PathOf(j, "_thumb.jpg") >>
    ELSE << PathOf(j, "_enhanced.jpg"), PathOf(j, "_corrected.jpg"),
            PathOf(j, "_filtered.jpg"), PathOf(j, "_thumb.jpg") >>
\* the output of a stage is an image for the thumbnail, else the input's kind
OutOf(st) == IF st.dst = "_thumb.jpg" THEN ParContent("image") ELSE ParContent(st.media)

NoAccess == [touched |-> {}, created |-> {}, uploads |-> 0]
Log(t, evs) ==
    [touched |-> t.touched \cup UNION {evs[i].touched : i \in DOMAIN evs},
     created |-> t.created \cup UNION {evs[i].created : i \in DOMAIN evs},
     uploads |-> t.uploads
                 + Cardinality({i \in DOMAIN evs :
                                  /\ evs[i].op \in {"upload_media", "upload_thumbnail"}
                                  /\ evs[i].err = ""})]

ParGoes(j, at, ev) ==
    /\ pc' = [pc EXCEPT ![j] = at]
    /\ trace' = [trace EXCEPT ![j] = Log(@, ev)]
    /\ UNCHANGED response

ParFail(j, ev) ==
    /\ pc' = [pc EXCEPT ![j] = At("done", 0)]
    /\ response' = [response EXCEPT ![j] = [status |-> "error", body |-> NoResult]]
    /\ trace' = [trace EXCEPT ![j] = Log(@, ev)]

ParInit ==
    /\ pc = [j \in Jobs |-> At("idle", 0)]
    /\ runs = 0
    /\ request = [j \in Jobs |-> [user_id |-> "u1", suffix |-> ".jpg"]]
    /\ nextId = 1
    /\ disk = << >>
    /\ storage = {}
    /\ media_path = [j \in Jobs |-> NoPath]
    /\ media_type = [j \in Jobs |-> ""]
    /\ output_id = [j \in Jobs |-> 0]
    /\ music_url = [j \in Jobs |-> NoMusic]
    /\ result = [j \in Jobs |-> NoResult]
    /\ description = [j \in Jobs |-> ""]
    /\ captions = [j \in Jobs |-> JNull]
    /\ response = [j \in Jobs |-> NoResponse]
    /\ trace = [j \in Jobs |-> NoAccess]

\* process_media up to the dispatch: download_media and detect_media_type
ParDownloadMedia(j) ==
    /\ pc[j].at = "idle"
    /\ runs' = runs + 1
    /\ \E u \in Users, sfx \in ParSuffixes, ok \in BOOLEAN :
        /\ request' = [request EXCEPT ![j] = [user_id |-> u, suffix |-> sfx]]
        /\ IF ok
           THEN LET p == Path(nextId, sfx)
                IN  /\ disk' = WriteFile(disk, p, ParContent(
                                   IF detect_media_type(sfx) = "video" THEN "video"
                                   ELSE "image"))
                    /\ media_path' = [media_path EXCEPT ![j] = p]
                    /\ media_type' = [media_type EXCEPT ![j] = detect_media_type(sfx)]
                    /\ nextId' = nextId + 1
                    /\ ParGoes(j, At("dispatch", 0),
                               << ParEvent("download_media", "", {p}, {p}) >>)
           ELSE /\ ParFail(j, << ParEvent("download_media", "raised", {}, {}) >>)
                /\ UNCHANGED << disk, media_path, media_type, nextId >>
    /\ UNCHANGED << storage, output_id, music_url, result, description, captions >>

\* process_photo / process_video: the enhancer is built and output_id drawn
ParDispatch(j) ==
    /\ pc[j].at = "dispatch"
    /\ \E env \in BOOLEAN :
        IF env \/ media_type[j] = "video"
        THEN /\ output_id' = [output_id EXCEPT ![j] = nextId]
             /\ nextId' = nextId + 1
             /\ ParGoes(j, At("pipeline", 1), << >>)
        ELSE /\ ParFail(j, << ParEvent("PhotoEnhancer", "raised", {}, {}) >>)
             /\ UNCHANGED << output_id, nextId >>
    /\ UNCHANGED << runs, request, disk, storage, media_path, media_type,
                    music_url, result, description, captions >>

ParStageFrame == << runs, request, nextId, storage, media_path, media_type,
                    output_id, music_url, result, description, captions >>

\* a stage with one local method
ParLocalStage(j) ==
    /\ InPipeline(j, "local")
    /\ LET st == Current(j)
           src == PathOf(j, st.src)
           dst == PathOf(j, st.dst)
       IN  \E ok \in BOOLEAN :
               IF ok /\ Readable(src, st.media)
               THEN /\ disk' = WriteFile(disk, dst, OutOf(st))
                    /\ ParGoes(j, AfterStep(j), << ParEvent(st.op, "", {src, dst}, {dst}) >>)
               ELSE /\ ParFail(j, << ParEvent(st.op, "raised", {src}, {}) >>)
                    /\ UNCHANGED disk
    /\ UNCHANGED ParStageFrame

\* ai_enhance / upscale_video: the remote primary, then the local fallback
ParAiStage(j) ==
    /\ InPipeline(j, "ai")
    /\ LET st == Current(j)
           src == PathOf(j, st.src)
           dst == PathOf(j, st.dst)
       IN  \E o \in PrimaryOutcomes, fb \in BOOLEAN :
               /\ o = "ok" => Readable(src, st.media)
               /\ IF ~PrimaryRaises(o)
                  THEN /\ disk' = WriteFile(disk, dst,
                                            IF o = "ok" THEN OutOf(st) ELSE Garbage)
                       /\ ParGoes(j, AfterStep(j),
                                  << ParEvent(st.op \o ".primary",
                                              IF o = "ok" THEN "" ELSE o,
                                              {src, dst}, {dst}) >>)
                  ELSE IF fb /\ Readable(src, st.media)
                  THEN /\ disk' = WriteFile(disk, dst, OutOf(st))
                       /\ ParGoes(j, AfterStep(j),
                                  << ParEvent(st.op \o ".primary", o, {src}, {}),
                                     ParEvent(st.op \o ".fallback", "", {src, dst}, {dst}) >>)
                  ELSE /\ ParFail(j, << ParEvent(st.op \o ".primary", o, {src}, {}),
                                        ParEvent(st.op \o ".fallback", "raised", {src}, {}) >>)
                       /\ UNCHANGED disk
    /\ UNCHANGED ParStageFrame

\* select_music
ParSelectMusic(j) ==
    /\ InPipeline(j, "music")
    /\ \E i \in 1..Len(MUSIC_LIBRARY) :
          music_url' = [music_url EXCEPT ![j] = MUSIC_LIBRARY[i]]
    /\ ParGoes(j, AfterStep(j), << ParEvent("select_music", "", {}, {}) >>)
    /\ UNCHANGED << runs, request, nextId, disk, storage, media_path, media_type,
                    output_id, result, description, captions >>

\* upload_to_storage
ParUpload(j) ==
    /\ InPipeline(j, "upload")
    /\ LET st == Current(j)
           src == PathOf(j, st.src)
           url == Url(st.dst, request[j].user_id, nextId, st.media)
           field == IF st.op = "upload_media" THEN "media_url" ELSE "thumbnail_url"
       IN  \E ok \in BOOLEAN :
               IF ok /\ Exists(src)
               THEN /\ storage' = storage \cup {[url |-> url, content |-> disk[src]]}
                    /\ result' = [result EXCEPT ![j][field] = url]
                    /\ nextId' = nextId + 1
                    /\ ParGoes(j, AfterStep(j), << ParEvent(st.op, "", {src}, {}) >>)
               ELSE /\ ParFail(j, << ParEvent(st.op, "raised", {src}, {}) >>)
                    /\ UNCHANGED << storage, result, nextId >>
    /\ UNCHANGED << runs, request, disk, media_path, media_type, output_id,
                    music_url, description, captions >>

\* the cleanup loop and the returned dict
ParCleanup(j) ==
    /\ InPipeline(j, "cleanup")
    /\ LET files == TempsOf(j)
       IN  \E k \in 0..Len(files) :
               /\ disk' = RemoveAll(disk, SubSeq(files, 1, k))
               /\ IF k = Len(files)
                  THEN /\ ParGoes(j, AfterStep(j),
                                  << ParEvent("cleanup", "", Range(files), {}) >>)
                       /\ result' = [result EXCEPT
                                       ![j].music_url = music_url[j],
                                       ![j].ai_style = IF media_type[j] = "video"
                                                       THEN "cinematic" ELSE "enhanced"]
                  ELSE /\ ParFail(j, << ParEvent("cleanup", "raised",
                                                 Range(SubSeq(files, 1, k + 1)), {}) >>)
                       /\ UNCHANGED result
    /\ UNCHANGED << runs, request, nextId, storage, media_path, media_type,
                    output_id, music_url, description, captions >>

\* generate_captions as a whole: the list of the model, the fallback list, or
\* a parsed value that is not a list
ParGenerateCaptions(j) ==
    /\ pc[j].at = "captions"
    /\ \E v \in {StringList(5), FallbackList, JNum("5")} :
          captions' = [captions EXCEPT ![j] = v]
    /\ ParGoes(j, At("assemble", 0), << ParEvent("generate_captions", "", {}, {}) >>)
    /\ UNCHANGED << runs, request, nextId, disk, storage, media_path, media_type,
                    output_id, music_url, result, description >>

\* process_media: caption, captions, media_type, then os.remove(media_path)
ParAssemble(j) ==
    /\ pc[j].at = "assemble"
    /\ IF Truthy(captions[j]) /\ ~Subscriptable(captions[j])
       THEN /\ ParFail(j, << ParEvent("assemble", "raised", {}, {}) >>)
            /\ UNCHANGED << result, disk >>
       ELSE /\ result' = [result EXCEPT
                            ![j].caption = IF Truthy(captions[j]) THEN Index0(captions[j])
                                           ELSE JStr(""),
                            ![j].captions = captions[j],
                            ![j].media_type = media_type[j]]
            /\ \E ok \in BOOLEAN :
                  IF ok /\ Exists(media_path[j])
                  THEN /\ disk' = RemoveFile(disk, media_path[j])
                       /\ ParGoes(j, At("return", 0),
                                  << ParEvent("remove_source", "", {media_path[j]}, {}) >>)
                  ELSE /\ ParFail(j, << ParEvent("remove_source", "raised",
                                                 {media_path[j]}, {}) >>)
                       /\ UNCHANGED disk
    /\ UNCHANGED << runs, request, nextId, storage, media_path, media_type,
                    output_id, music_url, description, captions >>

\* process_media: return result (validated against ProcessResult)
ParReturn(j) ==
    /\ pc[j].at = "return"
    /\ \E lax \in BOOLEAN :
          IF Validates(result[j], lax)
          THEN /\ response' = [response EXCEPT
                                 ![j] = [status |-> "ok", body |-> Validated(result[j])]]
               /\ pc' = [pc EXCEPT ![j] = At("done", 0)]
               /\ trace' = [trace EXCEPT ![j] = Log(@, << ParEvent("return", "", {}, {}) >>)]
          ELSE ParFail(j, << ParEvent("return", "raised", {}, {}) >>)
    /\ UNCHANGED << runs, request, nextId, disk, storage, media_path, media_type,
                    output_id, music_url, result, description, captions >>

ParNext ==
    \/ \E j \in Jobs : ParDownloadMedia(j)
    \/ \E j \in Jobs : ParDispatch(j)
    \/ \E j \in Jobs : ParLocalStage(j)
    \/ \E j \in Jobs : ParAiStage(j)
    \/ \E j \in Jobs : ParSelectMusic(j)
    \/ \E j \in Jobs : ParUpload(j)
    \/ \E j \in Jobs : ParCleanup(j)
    \/ \E j \in Jobs : ParGenerateCaptions(j)
    \/ \E j \in Jobs : ParAssemble(j)
    \/ \E j \in Jobs : ParReturn(j)

SpecPar == ParInit /\ [][ParNext]_vars

\* C16: in any interleaving of two requests, no request reads, writes or
\* deletes a path that the other request created, every file on disk was
\* created by exactly one request, and no object key is written twice (the
\* buckets hold as many objects as uploads succeeded, under distinct keys).
RECURSIVE TotalUploads(_)
TotalUploads(js) ==
    IF js = {} THEN 0
    ELSE LET j == CHOOSE x \in js : TRUE
         IN  trace[j].uploads + TotalUploads(js \ {j})
Key(url) == [user_id |-> url.user_id, id |-> url.id, ext |-> url.ext]
C16_RunsIsolated ==
    /\ \A a, b \in Jobs : a # b => trace[a].touched \cap trace[b].created = {}
    /\ \A p \in DOMAIN disk : Cardinality({j \in Jobs : p \in trace[j].created}) = 1
    /\ Cardinality(storage) = TotalUploads(Jobs)
    /\ Cardinality({Key(o.url) : o \in storage}) = TotalUploads(Jobs)
C16_Witness_Interleaved ==
    \E a, b \in Jobs :
        /\ a # b
        /\ pc[a].at = "pipeline" /\ pc[a].step >= 3
        /\ pc[b].at = "captions"
        /\ output_id[a] < output_id[b]
        /\ media_path[b].id < output_id[a]

\* C18: when the same job is run twice and both runs succeed, the four
\* object keys of the two results are pairwise distinct, and the two results
\* have the same ai_style and the same media_type.
C18_SameJobTwice ==
    \A a, b \in Jobs :
        (a # b /\ response[a].status = "ok" /\ response[b].status = "ok"
           /\ request[a] = request[b]) =>
            /\ Cardinality({Key(response[a].body.media_url),
                            Key(response[a].body.thumbnail_url),
                            Key(response[b].body.media_url),
                            Key(response[b].body.thumbnail_url)}) = 4
            /\ response[a].body.ai_style = response[b].body.ai_style
            /\ response[a].body.media_type = response[b].body.media_type
C18_Witness ==
    /\ \A j \in Jobs : response[j].status = "ok"
    /\ request["A"] = request["B"]
    /\ request["A"].suffix = ".mp4"

====
